---- MODULE Spec2Model ----
(***************************************************************************)
(* A model of zrender's Path element (src/src/graphic/Path.js): the dirty  *)
(* flags, the recorded geometry buffer, the cached bounding rectangle, the *)
(* hit test and the propagation of dirtiness to clip targets.              *)
(*                                                                         *)
(* Lengths are integers that count quarters of a pixel (Unit), so that the *)
(* halved and scale-divided stroke widths of the source stay exact.        *)
(***************************************************************************)
EXTENDS Integers, Sequences, FiniteSets, TLC

VARIABLES shape, style, transform, path, dirtyPath, dirtyFlag, rect,
          clipTarget, zr, needsRefresh, last, run, gbrPrev

vars == <<shape, style, transform, path, dirtyPath, dirtyFlag, rect,
          clipTarget, zr, needsRefresh, last, run, gbrPrev>>

---------------------------------------------------------------------------
(* Bounds of the model *)

NumEnt == 3
NumSizes == 2
MaxCoef == 4

---------------------------------------------------------------------------
(* Values *)

Ent == 1..NumEnt
NoEnt == 0
Unit == 2 * 2
MinLineWidth == 5
NullRect == <<>>
NoTransform == <<>>
Undef == 0 - 1

ShapeKeys == {"r", "k"}
Sizes == {10 * Unit * i : i \in 1..NumSizes}
LineWidths == {0, Unit, 12 * Unit}
Paints == {"null", "none", "red", "gradient"}
Coords == {(0 - 4) * Unit, (0 - 1) * Unit, 5 * Unit, 25 * Unit}
Transforms == {NoTransform, <<2, 0, 0, 2, 0, 0>>}
Identity == <<1, 0, 0, 1, 0, 0>>

Max(a, b) == IF a >= b THEN a ELSE b
abs(a) == IF a >= 0 THEN a ELSE 0 - a
Sqrt(n) == CHOOSE k \in 0..n : k * k <= n /\ (k + 1) * (k + 1) > n

---------------------------------------------------------------------------
(* Collaborators of Path.js: the geometry buffer (PathProxy), the shape     *)
(* kind's builder, the bounding rectangle and the containment predicates.  *)

\* new PathProxy(): no commands, no dash configuration
NewPathProxy == [data |-> <<>>, dash |-> FALSE]

\* PathProxy.beginPath: resets the recording
BeginPath(p) == [data |-> <<>>, dash |-> FALSE]

\* PathProxy.setLineDash / setLineDashOffset
SetLineDash(p) == [p EXCEPT !.dash = TRUE]

\* buildPath of the modelled shape kind: a square of side shape.r with its
\* corner at the origin, recorded as one command
BuildPath(p, shp) == [p EXCEPT !.data = Append(@, shp.kv["r"])]

RECURSIVE MaxOf(_)
MaxOf(s) == IF s = <<>> THEN 0 ELSE Max(Head(s), MaxOf(Tail(s)))

\* PathProxy.getBoundingRect: the raw bounds of the recorded commands
PathBoundingRect(p) == <<0, 0, MaxOf(p.data), MaxOf(p.data)>>

\* BoundingRect.contain
RectContain(rc, x, y) ==
    /\ x >= rc[1] /\ x <= rc[1] + rc[3]
    /\ y >= rc[2] /\ y <= rc[2] + rc[4]

InSquare(lo, hi, x, y) == x >= lo /\ x <= hi /\ y >= lo /\ y <= hi
InOpenSquare(lo, hi, x, y) == x > lo /\ x < hi /\ y > lo /\ y < hi

\* contain/path.contain: the point is in the filled region of some command
PathContainFill(data, x, y) ==
    \E i \in 1..Len(data) : InSquare(0, data[i], x, y)

\* contain/path.containStroke: the point is within lineWidth / 2 of the
\* outline of some command (lineWidth is even in every use of the model)
PathContainStroke(data, lineWidth, x, y) ==
    /\ lineWidth > 0
    /\ \E i \in 1..Len(data) :
          /\ InSquare(0 - lineWidth \div 2, data[i] + lineWidth \div 2, x, y)
          /\ ~InOpenSquare(lineWidth \div 2, data[i] - lineWidth \div 2, x, y)

\* Element.transformCoordToLocal for the diagonal transforms of the model
TransformCoordToLocal(m, x, y) ==
    IF m = NoTransform THEN <<x, y>> ELSE <<x \div m[1], y \div m[4]>>

---------------------------------------------------------------------------
(* Path.js *)

pathHasFill(st) == st.fill # "null" /\ st.fill # "none"

pathHasStroke(st) ==
    st.stroke # "null" /\ st.stroke # "none" /\ st.lineWidth > 0

\* m[0], m[3], m[2], m[1] of the source are m[1], m[4], m[3], m[2] here
getLineScale(m) ==
    IF m # NoTransform /\ abs(m[1] - 1) > 0 /\ abs(m[4] - 1) > 0
    THEN Sqrt(abs(m[1] * m[4] - m[3] * m[2]))
    ELSE 1

\* The stroke width without its floor of 5
EffectiveWidthNoFloor(w, m) == w

\* Math.max(w * lineScale, 5) / lineScale
EffectiveWidth(w, m) ==
    Max(w * getLineScale(m), MinLineWidth * Unit) \div getLineScale(m)

\* rect.width += w; rect.height += w; rect.x -= w / 2; rect.y -= w / 2
Inflate(rc, w) == <<rc[1] - w \div 2, rc[2] - w \div 2, rc[3] + w, rc[4] + w>>

\* getBoundingRect without lines 136-139: the bounds of whatever the buffer
\* holds, dirty or not
getBoundingRectNoRebuild(p, dp, rc, shp, st, m) ==
    IF rc # NullRect
    THEN [path |-> p, rect |-> rc, built |-> 0, trace |-> <<>>]
    ELSE [path |-> p,
          rect |-> IF pathHasStroke(st)
                   THEN Inflate(PathBoundingRect(p),
                                EffectiveWidth(st.lineWidth, m))
                   ELSE PathBoundingRect(p),
          built |-> 0, trace |-> <<"bounds">>]

\* getBoundingRect building into the buffer as it is, without beginPath
getBoundingRectNoBegin(p, dp, rc, shp, st, m) ==
    IF rc # NullRect
    THEN [path |-> p, rect |-> rc, built |-> 0, trace |-> <<>>]
    ELSE LET p1 == IF dp THEN BuildPath(p, shp) ELSE p
             raw == PathBoundingRect(p1)
         IN [path |-> p1,
             rect |-> IF pathHasStroke(st)
                      THEN Inflate(raw, EffectiveWidth(st.lineWidth, m))
                      ELSE raw,
             built |-> IF dp THEN 1 ELSE 0,
             trace |-> IF dp THEN <<"build", "bounds">> ELSE <<"bounds">>]

\* getBoundingRect with the stroke inflation outside the `if (!this._rect)`
\* block: the cached rectangle grows on every call
getBoundingRectReinflate(p, dp, rc, shp, st, m) ==
    LET p1 == IF rc = NullRect /\ dp THEN BuildPath(BeginPath(p), shp) ELSE p
        base == IF rc = NullRect THEN PathBoundingRect(p1) ELSE rc
    IN [path |-> p1,
        rect |-> IF pathHasStroke(st)
                 THEN Inflate(base, EffectiveWidth(st.lineWidth, m))
                 ELSE base,
        built |-> IF rc = NullRect /\ dp THEN 1 ELSE 0,
        trace |-> IF rc # NullRect THEN <<>>
                  ELSE IF dp THEN <<"begin", "build", "bounds">>
                  ELSE <<"bounds">>]

\* Path.prototype.getBoundingRect on a Path whose buffer is p, flag dp,
\* cached rectangle rc, shape shp, style st and transform m
getBoundingRect(p, dp, rc, shp, st, m) ==
    IF rc # NullRect
    THEN [path |-> p, rect |-> rc, built |-> 0, trace |-> <<>>]
    ELSE LET p1 == IF dp THEN BuildPath(BeginPath(p), shp) ELSE p
             raw == PathBoundingRect(p1)
         IN [path |-> p1,
             rect |-> IF pathHasStroke(st)
                      THEN Inflate(raw, EffectiveWidth(st.lineWidth, m))
                      ELSE raw,
             built |-> IF dp THEN 1 ELSE 0,
             trace |-> IF dp THEN <<"begin", "build", "bounds">>
                       ELSE <<"bounds">>]

\* contain with the fill test as the else-branch of the stroke test: a
\* stroked shape is never tested for its fill
containElseIf(p, dp, rc, shp, st, m, x, y) ==
    LET localPos == TransformCoordToLocal(m, x, y)
        g == getBoundingRect(p, dp, rc, shp, st, m)
        inRect == RectContain(g.rect, localPos[1], localPos[2])
    IN [path |-> g.path, rect |-> g.rect, built |-> g.built,
        trace |-> g.trace,
        hit |-> /\ inRect
                /\ IF pathHasStroke(st)
                   THEN PathContainStroke(g.path.data,
                            EffectiveWidth(st.lineWidth, m),
                            localPos[1], localPos[2])
                   ELSE /\ pathHasFill(st)
                        /\ PathContainFill(g.path.data,
                                           localPos[1], localPos[2]),
        tests |-> IF ~inRect THEN {}
                  ELSE IF pathHasStroke(st) THEN {"stroke"}
                  ELSE IF pathHasFill(st) THEN {"fill"} ELSE {}]

\* contain with the fill tested first and its result returned
containFillFirst(p, dp, rc, shp, st, m, x, y) ==
    LET localPos == TransformCoordToLocal(m, x, y)
        g == getBoundingRect(p, dp, rc, shp, st, m)
        inRect == RectContain(g.rect, localPos[1], localPos[2])
    IN [path |-> g.path, rect |-> g.rect, built |-> g.built,
        trace |-> g.trace,
        hit |-> /\ inRect
                /\ IF pathHasFill(st)
                   THEN PathContainFill(g.path.data,
                                        localPos[1], localPos[2])
                   ELSE /\ pathHasStroke(st)
                        /\ PathContainStroke(g.path.data,
                               EffectiveWidth(st.lineWidth, m),
                               localPos[1], localPos[2]),
        tests |-> IF ~inRect THEN {}
                  ELSE IF pathHasFill(st) THEN {"fill"}
                  ELSE IF pathHasStroke(st) THEN {"stroke"} ELSE {}]

\* Path.prototype.contain; tests lists the containment predicates called
contain(p, dp, rc, shp, st, m, x, y) ==
    LET localPos == TransformCoordToLocal(m, x, y)
        g == getBoundingRect(p, dp, rc, shp, st, m)
        lx == localPos[1]
        ly == localPos[2]
        inRect == RectContain(g.rect, lx, ly)
        byStroke == /\ inRect
                    /\ pathHasStroke(st)
                    /\ PathContainStroke(g.path.data,
                                         EffectiveWidth(st.lineWidth, m), lx, ly)
        fillTested == inRect /\ ~byStroke /\ pathHasFill(st)
    IN [path |-> g.path, rect |-> g.rect, built |-> g.built,
        trace |-> g.trace,
        hit |-> IF byStroke THEN TRUE
                ELSE IF fillTested THEN PathContainFill(g.path.data, lx, ly)
                ELSE FALSE,
        tests |-> (IF inRect /\ pathHasStroke(st) THEN {"stroke"} ELSE {})
                  \cup (IF fillTested THEN {"fill"} ELSE {})]

\* brush rebuilding on every paint
needsRebuildAlways(dp, st, ctxLineDash) == TRUE

\* brush rebuilding only a dirty path
needsRebuildDirtyOnly(dp, st, ctxLineDash) == dp

\* The condition of brush's rebuild branch: the path is dirty, or it needs
\* the line dash stroked in javascript
needsRebuild(dp, st, ctxLineDash) ==
    dp \/ (st.lineDash /\ ~ctxLineDash /\ pathHasStroke(st))

\* The gradient update of brush without the `if (this.__dirtyPath)` guard
updateGradientsAlways(dp, st) ==
    (IF pathHasFill(st) /\ st.fill = "gradient" THEN {"fill"} ELSE {})
    \cup (IF pathHasStroke(st) /\ st.stroke = "gradient"
          THEN {"stroke"} ELSE {})

\* The gradient update at the head of brush: the paints whose
\* updateCanvasGradient is called
updateGradients(dp, st) ==
    IF dp
    THEN (IF pathHasFill(st) /\ st.fill = "gradient" THEN {"fill"} ELSE {})
         \cup (IF pathHasStroke(st) /\ st.stroke = "gradient"
               THEN {"stroke"} ELSE {})
    ELSE {}

\* Gradient.updateCanvasGradient(el, ctx) when called (does), else nothing:
\* the gradient is resolved against el.getBoundingRect()
updateCanvasGradient(does, name, p, dp, rc, shp, st, m) ==
    IF does
    THEN [getBoundingRect(p, dp, rc, shp, st, m) EXCEPT
             !.trace = <<name>> \o @]
    ELSE [path |-> p, rect |-> rc, built |-> 0, trace |-> <<>>]

\* Path.prototype.brush on a surface whose setLineDash exists iff ctxLineDash
brush(p, dp, rc, shp, st, m, ctxLineDash) ==
    LET hasStroke == pathHasStroke(st)
        hasFill == pathHasFill(st)
        resolved == updateGradients(dp, st)
        uf == updateCanvasGradient("fill" \in resolved, "resolveFill",
                                   p, dp, rc, shp, st, m)
        us == updateCanvasGradient("stroke" \in resolved, "resolveStroke",
                                   uf.path, dp, uf.rect, shp, st, m)
        rebuild == needsRebuild(dp, st, ctxLineDash)
        p0 == BeginPath(us.path)
        p1 == IF st.lineDash /\ ~ctxLineDash THEN SetLineDash(p0) ELSE p0
        p2 == IF rebuild THEN BuildPath(p1, shp) ELSE us.path
        dp2 == IF rebuild THEN FALSE ELSE dp
        g == IF st.text
             THEN getBoundingRect(p2, dp2, us.rect, shp, st, m)
             ELSE [path |-> p2, rect |-> us.rect, built |-> 0,
                   trace |-> <<>>]
    IN [path |-> g.path, dirtyPath |-> dp2, rect |-> g.rect,
        built |-> uf.built + us.built + (IF rebuild THEN 1 ELSE 0) + g.built,
        replay |-> ~rebuild,
        resolved |-> resolved,
        trace |-> uf.trace \o us.trace
                  \o (IF rebuild THEN <<"begin", "build">> ELSE <<"replay">>)
                  \o g.trace,
        ret |-> IF st.text THEN g.rect ELSE NullRect]

\* dirty without `this.__dirtyPath = dirtyPath`: a changed shape voids the
\* rectangle but the buffer is not marked for a rebuild
dirtyBodyNoPathFlag(f, flag) ==
    [dirtyPath |-> f.dirtyPath,
     rect |-> IF flag THEN NullRect ELSE f.rect,
     dirty |-> TRUE]

\* dirty without `this._rect = null`
dirtyBodyKeepRect(f, flag) ==
    [dirtyPath |-> IF flag THEN TRUE ELSE f.dirtyPath,
     rect |-> f.rect,
     dirty |-> TRUE]

\* dirty without the `if (dirtyPath)` guard: dirty(false) marks the path clean
dirtyBodyMarkClean(f, flag) ==
    [dirtyPath |-> flag,
     rect |-> IF flag THEN NullRect ELSE f.rect,
     dirty |-> TRUE]

\* dirty invalidating the geometry whatever its argument
dirtyBodyAlways(f, flag) ==
    [dirtyPath |-> TRUE, rect |-> NullRect, dirty |-> TRUE]

\* The body of Path.prototype.dirty on one entity, before it recurses:
\* f is the entity's [dirtyPath, rect, dirty], flag the truth of the argument
dirtyBody(f, flag) ==
    [dirtyPath |-> IF flag THEN TRUE ELSE f.dirtyPath,
     rect |-> IF flag THEN NullRect ELSE f.rect,
     dirty |-> TRUE]

\* dirty without lines 203-205: the clip target is not told
dirtyNoClipTarget(S, e, flag, depth) ==
    [S |-> [S EXCEPT ![e] = dirtyBody(S[e], flag)], refresh |-> {e},
     inval |-> IF flag THEN {e} ELSE {}, returned |-> TRUE]

\* Path.prototype.dirty with its recursion into __clipTarget.dirty().  S maps
\* each entity to its [dirtyPath, rect, dirty]; depth is the number of frames
\* the call stack still holds.  The result carries returned = FALSE when the
\* recursion exhausts the stack.
RECURSIVE dirty(_, _, _, _)
dirty(S, e, flag, depth) ==
    LET S1 == [S EXCEPT ![e] = dirtyBody(S[e], flag)]
        here == [S |-> S1, refresh |-> {e},
                 inval |-> IF flag THEN {e} ELSE {}, returned |-> TRUE]
    IN IF clipTarget[e] = NoEnt
       THEN here
       ELSE IF depth = 0
       THEN [here EXCEPT !.returned = FALSE]
       ELSE LET d == dirty(S1, clipTarget[e], TRUE, depth - 1)
            IN [S |-> d.S, refresh |-> d.refresh \cup here.refresh,
                inval |-> d.inval \cup here.inval, returned |-> d.returned]

\* The frames available to one dirty() call: enough for every chain over Ent
StackDepth == NumEnt + 1

Flags == [x \in Ent |->
            [dirtyPath |-> dirtyPath[x], rect |-> rect[x], dirty |-> dirtyFlag[x]]]

\* setShape storing only the keys the shape already has
StoreShapeKnownKeys(shp, m) ==
    [shp EXCEPT !.kv = [k \in ShapeKeys |->
                           IF k \in DOMAIN m /\ shp.kv[k] # Undef
                           THEN m[k] ELSE shp.kv[k]]]

\* Path.prototype.setShape: the shape after the stores; m maps the supplied
\* keys to their values
StoreShape(shp, m) ==
    [shp EXCEPT !.kv = [k \in ShapeKeys |->
                           IF k \in DOMAIN m THEN m[k] ELSE shp.kv[k]]]

\* The shape merge of an extended kind with the hasOwnProperty test on the
\* instance left out: a default replaces the value given at construction
mergeShapeOverwrite(thisShape, defaultShape) ==
    [obj |-> TRUE,
     kv |-> [k \in ShapeKeys |->
                IF defaultShape.kv[k] # Undef THEN defaultShape.kv[k]
                ELSE IF thisShape.obj THEN thisShape.kv[k] ELSE Undef]]

\* Sub, `this.shape = this.shape || {}` and the loop over defaultShape: a
\* default is copied for every key the instance's shape does not own
mergeShape(thisShape, defaultShape) ==
    [obj |-> TRUE,
     kv |-> [k \in ShapeKeys |->
                IF thisShape.obj /\ thisShape.kv[k] # Undef
                THEN thisShape.kv[k]
                ELSE defaultShape.kv[k]]]

\* Style.extendFrom(other, overwrite) on a style whose own keys are own
ExtendFrom(st, own, other, overwrite) ==
    [k \in DOMAIN st |->
        IF k \in DOMAIN other /\ (overwrite \/ k \notin own)
        THEN other[k] ELSE st[k]]

\* Style defaults of a new Displayable
DefaultStyle ==
    [fill |-> "red", stroke |-> "null", lineWidth |-> Unit,
     lineDash |-> FALSE, text |-> FALSE]

\* Displayable.call(this, opts): the instance takes opts.shape and a style
\* made of opts.style, and is dirty
NewDisplayable(opts) ==
    [shape |-> opts.shape,
     style |-> ExtendFrom(DefaultStyle, {}, opts.style, FALSE),
     dirty |-> TRUE]

\* Path.call(this, opts): a Displayable with an empty buffer of its own, the
\* prototype's __dirtyPath and no _rect
NewPath(opts) ==
    NewDisplayable(opts)
    @@ [path |-> NewPathProxy, dirtyPath |-> TRUE, rect |-> NullRect]

\* Sub calling the init hook before the defaults are merged
extendNewInitFirst(defaults, opts) ==
    LET base == NewPath(opts)
    IN [base EXCEPT
           !.style = IF DOMAIN defaults.style # {}
                     THEN ExtendFrom(@, DOMAIN opts.style, defaults.style,
                                     FALSE)
                     ELSE @,
           !.shape = IF defaults.shape.obj
                     THEN mergeShape(@, defaults.shape) ELSE @]
       @@ [trace |-> <<"Path">>
                     \o (IF defaults.init THEN <<"init">> ELSE <<>>)
                     \o (IF DOMAIN defaults.style # {} THEN <<"style">>
                         ELSE <<>>)
                     \o (IF defaults.shape.obj THEN <<"shape">> ELSE <<>>),
           hook |-> IF defaults.init
                    THEN <<[shape |-> base.shape, opts |-> opts]>>
                    ELSE <<>>,
           defaults |-> defaults]

\* new Sub(opts) for Sub = Path.extend(defaults): the instance, the order of
\* the constructor's steps (trace), what each call of the init hook was
\* given (hook: the instance's shape and the options), and the defaults after
\* the construction
extendNew(defaults, opts) ==
    LET base == NewPath(opts)
        st1 == IF DOMAIN defaults.style # {}
               THEN ExtendFrom(base.style, DOMAIN opts.style, defaults.style,
                               FALSE)
               ELSE base.style
        shp1 == IF defaults.shape.obj
                THEN mergeShape(base.shape, defaults.shape)
                ELSE base.shape
    IN [base EXCEPT !.style = st1, !.shape = shp1]
       @@ [trace |-> <<"Path">>
                     \o (IF DOMAIN defaults.style # {} THEN <<"style">>
                         ELSE <<>>)
                     \o (IF defaults.shape.obj THEN <<"shape">> ELSE <<>>)
                     \o (IF defaults.init THEN <<"init">> ELSE <<>>),
           hook |-> IF defaults.init
                    THEN <<[shape |-> shp1, opts |-> opts]>>
                    ELSE <<>>,
           defaults |-> defaults]

---------------------------------------------------------------------------
(* Observation of the calls *)

\* What the last call was and what it did: the entity's flags at entry (pre),
\* the builder invocations (built), whether the buffer was replayed, the
\* rectangle or hit result returned, the containment predicates called, the
\* gradients resolved, the order of the call's steps (trace), the value a
\* chainable or numeric call returned (result), what a constructor gave its
\* init hook and left of its defaults (hook, kind), and whether the call
\* returned
Pre(e) ==
    IF e = NoEnt THEN [dirtyPath |-> TRUE, cached |-> FALSE]
    ELSE [dirtyPath |-> dirtyPath[e], cached |-> rect[e] # NullRect]

Call(op, e, arg) ==
    [op |-> op, e |-> e, arg |-> arg, pre |-> Pre(e),
     built |-> 0, replay |-> FALSE,
     ret |-> NullRect, hit |-> FALSE, tests |-> {}, resolved |-> {},
     trace |-> <<>>, result |-> NoEnt, hook |-> <<>>, kind |-> <<>>,
     returned |-> TRUE]

\* run.phase: 1 after a geometry-invalidating dirty call on run.e, 2 and 3
\* after the first and second brush that directly follow it, 0 otherwise;
\* run.builds counts the builder invocations of those brushes
Idle == [e |-> NoEnt, phase |-> 0, builds |-> 0]
Armed(e) == [e |-> e, phase |-> 1, builds |-> 0]
RunBrush(e, built) ==
    IF run.e = e /\ run.phase \in {1, 2}
    THEN [e |-> e, phase |-> run.phase + 1, builds |-> run.builds + built]
    ELSE Idle

\* gbrPrev: the rectangle the last getBoundingRect of gbrPrev.e returned,
\* called directly or from within contain or brush (for the text or for a
\* gradient), kept until a dirty call invalidates that entity's geometry
NoPrev == [e |-> NoEnt, ret |-> NullRect]
PrevAfterDirty(inval) == IF gbrPrev.e \in inval THEN NoPrev ELSE gbrPrev

---------------------------------------------------------------------------
(* Construction *)

\* The fields of new Paths other than their shape and style
InitRest(clip) ==
    /\ path = [e \in Ent |-> NewPathProxy]
    /\ dirtyPath = [e \in Ent |-> TRUE]
    /\ dirtyFlag = [e \in Ent |-> TRUE]
    /\ rect = [e \in Ent |-> NullRect]
    /\ clipTarget = clip
    /\ needsRefresh = FALSE
    /\ last = Call("new", NoEnt, <<>>)
    /\ run = Idle
    /\ gbrPrev = NoPrev

\* new Path(opts): opts.shape sets r, the buffer is empty, __dirtyPath and
\* __dirty hold their prototype value true, _rect is unset
InitPaths(clip) ==
    /\ shape \in [Ent -> {[obj |-> TRUE, kv |-> [r |-> s, k |-> Undef]] :
                            s \in {10 * Unit}}]
    /\ style = [e \in Ent |-> DefaultStyle]
    /\ InitRest(clip)

---------------------------------------------------------------------------
(* Operations *)

\* The state change of a dirty call on e, shared by dirty and setShape
ApplyDirty(e, flag, call) ==
    LET d == dirty(Flags, e, flag, StackDepth)
    IN /\ dirtyPath' = [x \in Ent |-> d.S[x].dirtyPath]
       /\ rect' = [x \in Ent |-> d.S[x].rect]
       /\ dirtyFlag' = [x \in Ent |-> d.S[x].dirty]
       /\ needsRefresh' = (needsRefresh \/ \E x \in d.refresh : zr[x])
       /\ last' = [call EXCEPT !.returned = d.returned]
       /\ run' = IF flag THEN Armed(e) ELSE Idle
       /\ gbrPrev' = PrevAfterDirty(d.inval)

\* el.dirty(), el.dirty(true), el.dirty(false)
Dirty(e, arg) ==
    /\ ApplyDirty(e, arg # "false", Call("dirty", e, <<arg>>))
    /\ UNCHANGED <<shape, style, transform, path, clipTarget, zr>>

\* el.setShape(m) and el.setShape(key, value): m maps the supplied keys
SetShape(e, m) ==
    /\ IF shape[e].obj
       THEN /\ shape' = [shape EXCEPT ![e] = StoreShape(@, m)]
            /\ ApplyDirty(e, TRUE,
                          [Call("setShape", e, <<m>>) EXCEPT !.result = e])
       ELSE /\ last' = [Call("setShape", e, <<m>>) EXCEPT !.result = e]
            /\ run' = Idle
            /\ UNCHANGED <<shape, dirtyPath, rect, dirtyFlag, needsRefresh,
                           gbrPrev>>
    /\ UNCHANGED <<style, transform, path, clipTarget, zr>>

\* el.brush(ctx)
Brush(e, ctxLineDash) ==
    LET b == brush(path[e], dirtyPath[e], rect[e], shape[e], style[e],
                   transform[e], ctxLineDash)
    IN /\ path' = [path EXCEPT ![e] = b.path]
       /\ dirtyPath' = [dirtyPath EXCEPT ![e] = b.dirtyPath]
       /\ rect' = [rect EXCEPT ![e] = b.rect]
       /\ last' = [Call("brush", e, <<ctxLineDash>>) EXCEPT
                      !.built = b.built, !.replay = b.replay,
                      !.resolved = b.resolved, !.ret = b.ret,
                      !.trace = b.trace]
       /\ run' = RunBrush(e, b.built)
       /\ gbrPrev' = IF style[e].text \/ b.resolved # {}
                     THEN [e |-> e, ret |-> b.rect]
                     ELSE gbrPrev
       /\ UNCHANGED <<shape, style, transform, dirtyFlag, clipTarget, zr,
                      needsRefresh>>

\* el.getBoundingRect() clearing __dirtyPath after its rebuild, as brush does
GetBoundingRectClears(e) ==
    LET g == getBoundingRect(path[e], dirtyPath[e], rect[e], shape[e],
                             style[e], transform[e])
    IN /\ path' = [path EXCEPT ![e] = g.path]
       /\ rect' = [rect EXCEPT ![e] = g.rect]
       /\ dirtyPath' = [dirtyPath EXCEPT ![e] = @ /\ g.built = 0]
       /\ last' = [Call("getBoundingRect", e, <<>>) EXCEPT
                      !.built = g.built, !.ret = g.rect,
                      !.trace = g.trace]
       /\ run' = Idle
       /\ gbrPrev' = [e |-> e, ret |-> g.rect]
       /\ UNCHANGED <<shape, style, transform, dirtyFlag, clipTarget, zr,
                      needsRefresh>>

\* el.getBoundingRect()
GetBoundingRect(e) ==
    LET g == getBoundingRect(path[e], dirtyPath[e], rect[e], shape[e],
                             style[e], transform[e])
    IN /\ path' = [path EXCEPT ![e] = g.path]
       /\ rect' = [rect EXCEPT ![e] = g.rect]
       /\ last' = [Call("getBoundingRect", e, <<>>) EXCEPT
                      !.built = g.built, !.ret = g.rect,
                      !.trace = g.trace]
       /\ run' = Idle
       /\ gbrPrev' = [e |-> e, ret |-> g.rect]
       /\ UNCHANGED <<shape, style, transform, dirtyPath, dirtyFlag,
                      clipTarget, zr, needsRefresh>>

\* The factors that take a local coordinate to the parent's space
ScaleX(m) == IF m = NoTransform THEN 1 ELSE m[1]
ScaleY(m) == IF m = NoTransform THEN 1 ELSE m[4]

\* el.contain(x, y), called with the image of the local point (lx, ly)
Contain(e, lx, ly) ==
    LET c == contain(path[e], dirtyPath[e], rect[e], shape[e], style[e],
                     transform[e], lx * ScaleX(transform[e]),
                     ly * ScaleY(transform[e]))
    IN /\ path' = [path EXCEPT ![e] = c.path]
       /\ rect' = [rect EXCEPT ![e] = c.rect]
       /\ last' = [Call("contain", e, <<lx, ly>>) EXCEPT
                      !.built = c.built, !.ret = c.rect, !.hit = c.hit,
                      !.tests = c.tests, !.trace = c.trace]
       /\ run' = Idle
       /\ gbrPrev' = [e |-> e, ret |-> c.rect]
       /\ UNCHANGED <<shape, style, transform, dirtyPath, dirtyFlag,
                      clipTarget, zr, needsRefresh>>

\* Displayable.setStyle(key, value): the store, then dirty(false)
SetStyle(e, key, value) ==
    /\ style' = [style EXCEPT ![e] = [@ EXCEPT ![key] = value]]
    /\ ApplyDirty(e, FALSE, Call("setStyle", e, <<key>>))
    /\ UNCHANGED <<shape, transform, path, clipTarget, zr>>

\* The painter, once a frame is drawn: the entity's __dirty is cleared and
\* the refresh request is served
Painted(e) ==
    /\ dirtyFlag[e] \/ needsRefresh
    /\ dirtyFlag' = [dirtyFlag EXCEPT ![e] = FALSE]
    /\ needsRefresh' = FALSE
    /\ last' = Call("painted", e, <<>>)
    /\ run' = Idle
    /\ UNCHANGED <<shape, style, transform, path, dirtyPath, rect,
                   clipTarget, zr, gbrPrev>>

\* e = new Sub(opts) for Sub = Path.extend(defaults): the instance takes the
\* place of a detached entity e
New(e, defaults, opts) ==
    LET n == extendNew(defaults, opts)
    IN /\ clipTarget[e] = NoEnt /\ ~zr[e] /\ transform[e] = NoTransform
       /\ \A x \in Ent : clipTarget[x] # e
       /\ shape' = [shape EXCEPT ![e] = n.shape]
       /\ style' = [style EXCEPT ![e] = n.style]
       /\ path' = [path EXCEPT ![e] = n.path]
       /\ dirtyPath' = [dirtyPath EXCEPT ![e] = n.dirtyPath]
       /\ dirtyFlag' = [dirtyFlag EXCEPT ![e] = n.dirty]
       /\ rect' = [rect EXCEPT ![e] = n.rect]
       /\ last' = [Call("construct", e, <<defaults, opts>>) EXCEPT
                      !.pre = [dirtyPath |-> TRUE, cached |-> FALSE],
                      !.trace = n.trace, !.hook = n.hook,
                      !.kind = n.defaults, !.result = e]
       /\ run' = Idle
       /\ gbrPrev' = IF gbrPrev.e = e THEN NoPrev ELSE gbrPrev
       /\ UNCHANGED <<transform, clipTarget, zr, needsRefresh>>

\* getLineScale(el.transform), as getBoundingRect and contain call it
GetLineScale(e) ==
    /\ last' = [Call("getLineScale", e, <<transform[e]>>) EXCEPT
                   !.result = getLineScale(transform[e])]
    /\ run' = Idle
    /\ UNCHANGED <<shape, style, transform, path, dirtyPath, dirtyFlag, rect,
                   clipTarget, zr, needsRefresh, gbrPrev>>

---------------------------------------------------------------------------
(* The life of one Path: the cache protocol *)

\* The mappings a setShape call supplies
ShapeArgs == {[k \in {"r"} |-> s] : s \in Sizes}

Init ==
    /\ InitPaths([e \in Ent |-> NoEnt])
    /\ transform \in [Ent -> Transforms]
    /\ \A e \in Ent \ {1} : transform[e] = NoTransform
    /\ zr = [e \in Ent |-> e = 1]

Next ==
    \/ \E m \in ShapeArgs : SetShape(1, m)
    \/ \E arg \in {"none", "true", "false"} : Dirty(1, arg)
    \/ \E ctxLineDash \in BOOLEAN : Brush(1, ctxLineDash)
    \/ GetBoundingRect(1)
    \/ \E c \in Coords : Contain(1, c, c)
    \/ \E v \in {"null", "none", "red"} : SetStyle(1, "stroke", v)
    \/ \E v \in LineWidths : SetStyle(1, "lineWidth", v)
    \/ \E v \in BOOLEAN : SetStyle(1, "lineDash", v)
    \/ \E v \in BOOLEAN : SetStyle(1, "text", v)
    \/ Painted(1)

Spec == Init /\ [][Next]_vars

---------------------------------------------------------------------------
(* The life of one Path: hit testing under style edits *)

NextHit ==
    \/ \E m \in ShapeArgs : SetShape(1, m)
    \/ GetBoundingRect(1)
    \/ Brush(1, TRUE)
    \/ \E lx, ly \in Coords : Contain(1, lx, ly)
    \/ \E v \in {"null", "none", "red"} : SetStyle(1, "fill", v)
    \/ \E v \in {"null", "none", "red"} : SetStyle(1, "stroke", v)
    \/ \E v \in LineWidths : SetStyle(1, "lineWidth", v)

SpecHit == Init /\ [][NextHit]_vars

---------------------------------------------------------------------------
(* Several entities, each possibly the clip path of the next one *)

\* el.setClipPath(p) has set p.__clipTarget = el: an entity clips its
\* successor, the last one the first
Successor(e) == IF e = NumEnt THEN 1 ELSE e + 1
ClipRelations ==
    {f \in [Ent -> Ent \cup {NoEnt}] :
        \A e \in Ent : f[e] \in {NoEnt, Successor(e)}}

InitClip ==
    /\ \E clip \in ClipRelations : InitPaths(clip)
    /\ transform = [e \in Ent |-> NoTransform]
    /\ zr = [e \in Ent |-> FALSE]

NextClip ==
    \/ \E e \in Ent, arg \in {"none", "true", "false"} : Dirty(e, arg)
    \/ \E e \in Ent : Brush(e, TRUE)
    \/ \E e \in Ent : Painted(e)

SpecClip == InitClip /\ [][NextClip]_vars

---------------------------------------------------------------------------
(* The life of one Path: painting with gradient paints *)

NextPaint ==
    \/ \E m \in ShapeArgs : SetShape(1, m)
    \/ \E arg \in {"true", "false"} : Dirty(1, arg)
    \/ \E ctxLineDash \in BOOLEAN : Brush(1, ctxLineDash)
    \/ \E v \in {"none", "red", "gradient"} : SetStyle(1, "fill", v)
    \/ \E v \in {"null", "red", "gradient"} : SetStyle(1, "stroke", v)
    \/ \E v \in {0, Unit} : SetStyle(1, "lineWidth", v)
    \/ \E v \in BOOLEAN : SetStyle(1, "lineDash", v)
    \/ \E v \in BOOLEAN : SetStyle(1, "text", v)

SpecPaint == Init /\ [][NextPaint]_vars

---------------------------------------------------------------------------
(* The bounding rectangle of Paths made with each stroke and line width *)

\* Entity 1 is made with any stroke and line width, with no transform or
\* the identity
InitBounds ==
    /\ shape = [e \in Ent |-> [obj |-> TRUE,
                                kv |-> [r |-> 10 * Unit, k |-> Undef]]]
    /\ \E v \in Paints, w \in LineWidths :
          style = [e \in Ent |->
                      IF e = 1
                      THEN [DefaultStyle EXCEPT !.stroke = v, !.lineWidth = w]
                      ELSE DefaultStyle]
    /\ InitRest([e \in Ent |-> NoEnt])
    /\ \E m \in {NoTransform, Identity} :
          transform = [e \in Ent |-> IF e = 1 THEN m ELSE NoTransform]
    /\ zr = [e \in Ent |-> e = 1]

NextBounds ==
    \/ \E m \in ShapeArgs : SetShape(1, m)
    \/ GetBoundingRect(1)
    \/ Brush(1, TRUE)

SpecBounds == InitBounds /\ [][NextBounds]_vars

---------------------------------------------------------------------------
(* The line scale of each transform *)

\* A number is the square of a whole number
IsSquare(n) == \E k \in 0..n : k * k = n

\* The matrices [a, b, c, d, 0, 0] of small whole coefficients whose
\* determinant has a whole square root
Matrices ==
    {m \in {<<a, b, c, d, 0, 0>> : a, b, c, d \in (0 - 1)..MaxCoef} :
        IsSquare(abs(m[1] * m[4] - m[3] * m[2]))}

InitScale ==
    /\ InitPaths([e \in Ent |-> NoEnt])
    /\ \E m \in {NoTransform} \cup Matrices :
          transform = [e \in Ent |-> IF e = 1 THEN m ELSE NoTransform]
    /\ zr = [e \in Ent |-> e = 1]

NextScale == GetLineScale(1)

SpecScale == InitScale /\ [][NextScale]_vars

---------------------------------------------------------------------------
(* setShape on Paths with and without a shape *)

\* A Path made with no shape, and the shape that holds the keys of m
NoShape == [obj |-> FALSE, kv |-> [k \in ShapeKeys |-> Undef]]
ShapeOf(m) ==
    [obj |-> TRUE,
     kv |-> [k \in ShapeKeys |-> IF k \in DOMAIN m THEN m[k] ELSE Undef]]

\* The mappings of some shape keys to values of vals
Mappings(vals) == UNION {[K -> vals] : K \in SUBSET ShapeKeys}

\* What setShape is given: one key and its value, or a mapping of several
SetShapeArgs == {m \in Mappings(Sizes) : DOMAIN m # {}}

\* Entity 1 has a shape or none, is in a scene and clips entity 2
InitShape ==
    /\ shape \in [Ent -> {NoShape, ShapeOf([k \in {"r"} |-> 10 * Unit])}]
    /\ \A e \in Ent \ {1} : shape[e].obj
    /\ style = [e \in Ent |-> DefaultStyle]
    /\ InitRest([e \in Ent |-> IF e = 1 THEN 2 ELSE NoEnt])
    /\ transform = [e \in Ent |-> NoTransform]
    /\ zr = [e \in Ent |-> e = 1]

NextShape ==
    \/ \E m \in SetShapeArgs : SetShape(1, m)
    \/ \E e \in {1, 2} : Brush(e, TRUE)
    \/ \E e \in {1, 2} : Painted(e)
    \/ GetBoundingRect(1)

SpecShape == InitShape /\ [][NextShape]_vars

---------------------------------------------------------------------------
(* Kinds made by Path.extend and their instances *)

\* The definitions given to Path.extend: default shape, default style and
\* whether there is an init hook
Definitions ==
    [shape : {NoShape} \cup {ShapeOf(m) : m \in Mappings({Unit})},
     style : {<<>>, [stroke |-> "red", lineWidth |-> 0]},
     init : BOOLEAN]

\* The options given to the constructor of the kind
Options ==
    [shape : {NoShape} \cup {ShapeOf(m) : m \in Mappings({20 * Unit})},
     style : {<<>>, [stroke |-> "none"], [lineWidth |-> 12 * Unit]}]

InitExtend ==
    /\ InitPaths([e \in Ent |-> NoEnt])
    /\ transform = [e \in Ent |-> NoTransform]
    /\ zr = [e \in Ent |-> FALSE]

NextExtend ==
    \/ \E defaults \in Definitions, opts \in Options : New(1, defaults, opts)
    \/ \E m \in ShapeArgs : SetShape(1, m)
    \/ Brush(1, TRUE)

SpecExtend == InitExtend /\ [][NextExtend]_vars

---------------------------------------------------------------------------
(* Properties *)

\* brush must stroke the dash in javascript: a stroke is active, a dash
\* pattern is set and the surface has no setLineDash
SoftwareDash(st, ctxLineDash) ==
    pathHasStroke(st) /\ st.lineDash /\ ~ctxLineDash

\* The paints of a style that are active and a gradient
ActiveGradients(st) ==
    {k \in {"fill", "stroke"} :
        /\ st[k] = "gradient"
        /\ k = "stroke" => st.lineWidth > 0}

\* The buffer of e holds exactly what one builder invocation records for the
\* current shape
BufferFresh(e) == path[e].data = <<shape[e].kv["r"]>>

\* The rectangle a computation from scratch gives e now: the raw bounds of
\* the current shape, inflated by the current effective line width
FreshRect(e) ==
    LET raw == <<0, 0, shape[e].kv["r"], shape[e].kv["r"]>>
        w == Max(style[e].lineWidth * getLineScale(transform[e]),
                 MinLineWidth * Unit) \div getLineScale(transform[e])
    IN IF pathHasStroke(style[e])
       THEN <<raw[1] - w \div 2, raw[2] - w \div 2, raw[3] + w, raw[4] + w>>
       ELSE raw

\* The entities reachable from x along __clipTarget edges, x included
RECURSIVE Chain(_, _)
Chain(x, n) ==
    IF x = NoEnt \/ n = 0 THEN {}
    ELSE {x} \cup Chain(clipTarget[x], n - 1)
ClipTargets(e) == Chain(clipTarget[e], NumEnt)

\* C1 as stated: after a geometry-invalidating dirty call, two consecutive
\* brush calls invoke the builder exactly once in total, whatever the style
\* and the surface: the first rebuilds, the second replays.
C1_Original ==
    run.phase = 3 => run.builds = 1 /\ last.replay

\* The builder invocations of the first brush after a geometry-invalidating
\* dirty call: its own rebuild, and one more when an active paint is a
\* gradient, whose resolution measures the Path and so builds the buffer
FirstBrushBuilds(st) == IF ActiveGradients(st) = {} THEN 1 ELSE 2

\* C1 as amended: after a geometry-invalidating dirty call the first brush
\* rebuilds the buffer, invoking the builder once, or twice when an active
\* fill or stroke is a gradient; the second brush replays the buffer without
\* invoking the builder, unless a stroke is active, a dash pattern is set
\* and the second call's surface has no native dash support, in which case
\* the second call rebuilds too and invokes the builder once more.
C1_CacheCorrectness ==
    /\ run.phase = 2 =>
          run.builds = FirstBrushBuilds(style[run.e]) /\ ~last.replay
    /\ run.phase = 3 =>
          IF SoftwareDash(style[run.e], last.arg[1])
          THEN /\ run.builds = FirstBrushBuilds(style[run.e]) + 1
               /\ ~last.replay /\ last.built = 1
          ELSE /\ run.builds = FirstBrushBuilds(style[run.e])
               /\ last.replay /\ last.built = 0

\* C1 witness: a second brush replayed the buffer that the first brush, of
\* a Path with a gradient paint, had built twice
C1_Witness ==
    /\ run.phase = 3 /\ run.builds = 2 /\ last.replay /\ last.built = 0
    /\ ActiveGradients(style[run.e]) # {}
    /\ style[run.e].lineDash /\ style[run.e].text

\* C2: a brush call starts a fresh recording and invokes the builder with
\* the current shape iff at entry __dirtyPath is true or the dash must be
\* stroked in javascript; otherwise it replays the buffer and does not invoke
\* the builder. In both cases __dirtyPath is false afterwards.
C2_RebuildIff ==
    [][last'.op = "brush" =>
        LET e == last'.e
            rebuild == dirtyPath[e] \/ SoftwareDash(style[e], last'.arg[1])
        IN /\ rebuild => /\ last'.built = 1 /\ ~last'.replay
                         /\ path'[e].data = <<shape[e].kv["r"]>>
           /\ ~rebuild => /\ last'.built = 0 /\ last'.replay
                          /\ path'[e] = path[e]
           /\ ~dirtyPath'[e]]_vars

\* C2 witness: a brush that found the flag clear rebuilt all the same, for
\* the software dash: the second of two brushes after a dirty call
C2_Witness ==
    /\ run.phase = 3 /\ run.builds = 2
    /\ last.op = "brush" /\ ~last.pre.dirtyPath /\ ~last.replay
    /\ ~dirtyPath[last.e]

\* C3 as stated: a cached bounding rectangle implies a clear __dirtyPath.
C3_Original ==
    \A e \in Ent : rect[e] # NullRect => ~dirtyPath[e]

\* C3 as amended: a cached bounding rectangle is the one the last
\* getBoundingRect computation returned with no invalidation since, and the
\* buffer then holds the geometry of the current shape; __dirtyPath may be
\* true or false (getBoundingRect rebuilds without clearing it).
C3_RectOnlyIfComputed ==
    \A e \in Ent :
        rect[e] # NullRect =>
            /\ gbrPrev = [e |-> e, ret |-> rect[e]]
            /\ BufferFresh(e)

\* C3 witness: a rectangle is cached while __dirtyPath is still true
C3_Witness ==
    /\ rect[1] # NullRect /\ dirtyPath[1]
    /\ last.op = "getBoundingRect" /\ last.built = 1

\* C4: an operation that changes __dirtyPath from false to true leaves _rect
\* null, and dirty() and dirty(true) leave __dirtyPath true and _rect null.
C4_DirtyClearsRect ==
    [][/\ \A e \in Ent :
             ~dirtyPath[e] /\ dirtyPath'[e] => rect'[e] = NullRect
       /\ last'.op = "dirty" =>
             (last'.arg[1] \in {"none", "true"} =>
                 dirtyPath'[last'.e] /\ rect'[last'.e] = NullRect)]_vars

\* C4 witness: dirty() on a clean path with a cached rectangle
C4_Witness ==
    /\ last.op = "dirty" /\ last.arg[1] = "none"
    /\ ~last.pre.dirtyPath /\ last.pre.cached
    /\ dirtyPath[last.e] /\ rect[last.e] = NullRect

\* C5: no dirty call (direct, or made by setShape or setStyle) changes
\* __dirtyPath or __dirty from true to false; __dirtyPath goes from true to
\* false only in a brush or getBoundingRect call that invoked the builder.
C5_DirtyMonotonic ==
    [][/\ last'.op \in {"dirty", "setShape", "setStyle"} =>
             \A e \in Ent : /\ dirtyPath[e] => dirtyPath'[e]
                            /\ dirtyFlag[e] => dirtyFlag'[e]
       /\ \A e \in Ent :
             dirtyPath[e] /\ ~dirtyPath'[e] =>
                 /\ last'.op \in {"brush", "getBoundingRect"}
                 /\ last'.e = e /\ last'.built >= 1]_vars

\* C5 witness: dirty(false) on a path whose __dirtyPath is true, still true
C5_Witness ==
    /\ last.op = "dirty" /\ last.arg[1] = "false"
    /\ last.pre.dirtyPath /\ dirtyPath[last.e] /\ dirtyFlag[last.e]

\* C6: a dirty call on e, whatever its argument, leaves every entity
\* reachable from e along __clipTarget edges with __dirty and __dirtyPath
\* true and _rect null, and leaves every other entity but e as it was.
C6_ClipPropagation ==
    [][last'.op = "dirty" =>
        LET e == last'.e
        IN /\ \A x \in ClipTargets(e) :
                 dirtyFlag'[x] /\ dirtyPath'[x] /\ rect'[x] = NullRect
           /\ \A x \in Ent \ (ClipTargets(e) \cup {e}) :
                 /\ dirtyFlag'[x] = dirtyFlag[x]
                 /\ dirtyPath'[x] = dirtyPath[x]
                 /\ rect'[x] = rect[x]]_vars

\* C6 witness: dirty(false) has returned on a path with a clip target; the
\* target is dirty and an entity off the chain is still clean
C6_Witness ==
    /\ last.op = "dirty" /\ last.arg[1] = "false" /\ last.returned
    /\ clipTarget[last.e] # NoEnt
    /\ dirtyPath[clipTarget[last.e]] /\ dirtyFlag[clipTarget[last.e]]
    /\ \E x \in Ent \ (ClipTargets(last.e) \cup {last.e}) :
          ~dirtyPath[x] /\ ~dirtyFlag[x]

\* C7: a style edit followed by dirty(false) sets __dirty and leaves
\* __dirtyPath, _rect and the buffer as they were, and a getBoundingRect that
\* follows it returns the rectangle cached before the edit.
C7_StyleEditKeepsCache ==
    [][/\ last'.op = "setStyle" =>
             /\ dirtyFlag'[last'.e]
             /\ dirtyPath'[last'.e] = dirtyPath[last'.e]
             /\ rect'[last'.e] = rect[last'.e]
             /\ path'[last'.e] = path[last'.e]
       /\ (/\ last.op = "setStyle" /\ last.pre.cached
           /\ last'.op = "getBoundingRect" /\ last'.e = last.e) =>
             /\ last'.ret = rect[last.e]
             /\ last'.ret = gbrPrev.ret
             /\ last'.built = 0]_vars

\* C7 witness: getBoundingRect has returned a cached rectangle that differs
\* from the one the current stroke width gives
C7_Witness ==
    /\ last.op = "getBoundingRect" /\ last.pre.cached
    /\ pathHasStroke(style[last.e])
    /\ last.ret # FreshRect(last.e)
    /\ dirtyFlag[last.e]

\* C8: a getBoundingRect call that follows an earlier one with no
\* geometry-invalidating dirty call in between returns the same rectangle,
\* does not invoke the builder and leaves the cached rectangle as it was.
C8_Memoized ==
    [][(/\ last'.op = "getBoundingRect"
        /\ gbrPrev.e = last'.e /\ gbrPrev.ret # NullRect) =>
          /\ last'.ret = gbrPrev.ret
          /\ last'.built = 0
          /\ rect'[last'.e] = gbrPrev.ret
          /\ path'[last'.e] = path[last'.e]]_vars

\* C8 witness: a second getBoundingRect on a stroked path
C8_Witness ==
    /\ last.op = "getBoundingRect" /\ last.pre.cached /\ last.built = 0
    /\ pathHasStroke(style[last.e])
    /\ last.ret = rect[last.e] /\ last.ret = FreshRect(last.e)

\* The containment predicates at the local point of the last contain call
HitInRect == RectContain(last.ret, last.arg[1], last.arg[2])
HitStroke ==
    PathContainStroke(path[last.e].data,
        Max(style[last.e].lineWidth * getLineScale(transform[last.e]),
            MinLineWidth * Unit) \div getLineScale(transform[last.e]),
        last.arg[1], last.arg[2])
HitFill == PathContainFill(path[last.e].data, last.arg[1], last.arg[2])

\* C9: contain returns false and calls no predicate when the local point is
\* outside getBoundingRect(); inside, it returns true if the stroke is
\* active and the stroke predicate accepts, otherwise the fill predicate's
\* result if the fill is active, otherwise false.
C9_HitDecision ==
    last.op = "contain" =>
        LET hasStroke == pathHasStroke(style[last.e])
            hasFill == pathHasFill(style[last.e])
        IN /\ last.ret = rect[last.e]
           /\ ~HitInRect => ~last.hit /\ last.tests = {}
           /\ HitInRect =>
                last.hit = IF hasStroke /\ HitStroke THEN TRUE
                           ELSE IF hasFill THEN HitFill
                           ELSE FALSE
           /\ HitInRect /\ hasStroke /\ hasFill =>
                last.hit = (HitStroke \/ HitFill)
           /\ "fill" \in last.tests => ~(hasStroke /\ HitStroke)

\* C9 witness: with both paints active, a point inside the fill and off the
\* stroke band is a hit
C9_Witness ==
    /\ last.op = "contain"
    /\ pathHasStroke(style[last.e]) /\ pathHasFill(style[last.e])
    /\ HitInRect /\ ~HitStroke /\ HitFill /\ last.hit
    /\ last.tests = {"stroke", "fill"}

\* C10 as stated: with both paints active, a point in the stroke band of the
\* current effective line width and outside the fill is a hit.
C10_Original ==
    (/\ last.op = "contain"
     /\ pathHasStroke(style[last.e]) /\ pathHasFill(style[last.e])
     /\ HitStroke /\ ~HitFill) => last.hit

\* C10 as amended: such a point is a hit iff it lies inside the cached
\* bounding rectangle, which it does whenever that rectangle was computed
\* with the current stroke and line width; a rectangle cached before a style
\* edit widened the stroke can reject the point.
C10_StrokePriority ==
    (/\ last.op = "contain"
     /\ pathHasStroke(style[last.e]) /\ pathHasFill(style[last.e])
     /\ HitStroke /\ ~HitFill) =>
        /\ last.hit = HitInRect
        /\ last.ret = FreshRect(last.e) => last.hit

\* C10 witness: a hit on the stroke band alone, after the rectangle was
\* taken from the cache
C10_Witness ==
    /\ last.op = "contain" /\ last.pre.cached
    /\ pathHasStroke(style[last.e]) /\ pathHasFill(style[last.e])
    /\ HitStroke /\ ~HitFill
    /\ last.ret = FreshRect(last.e) /\ last.hit

\* In a brush's trace, every gradient resolution comes before the build or
\* replay of brush's own branch, which is the last one of the trace (a
\* resolution may itself rebuild the buffer to measure the Path)
ResolvedFirst(tr) ==
    \A i \in DOMAIN tr :
        tr[i] \in {"resolveFill", "resolveStroke"} =>
            \E j \in DOMAIN tr :
                /\ i < j /\ tr[j] \in {"build", "replay"}
                /\ \A k \in DOMAIN tr :
                      tr[k] \in {"build", "replay"} => k <= j

\* C11 as stated: every brush call, rebuilding or replaying, resolves each
\* active gradient paint and no other paint, before the buffer is rebuilt or
\* replayed.
C11_Original ==
    last.op = "brush" =>
        /\ last.resolved = ActiveGradients(style[last.e])
        /\ ResolvedFirst(last.trace)

\* C11 as amended: a brush call entered with __dirtyPath true resolves each
\* active gradient paint and no other paint, before brush's own rebuild of
\* the buffer; a brush call entered with __dirtyPath false, whether it replays or rebuilds
\* for the software dash, resolves nothing.
C11_GradientWhenDirty ==
    last.op = "brush" =>
        /\ last.resolved = IF last.pre.dirtyPath
                           THEN ActiveGradients(style[last.e]) ELSE {}
        /\ ResolvedFirst(last.trace)

\* C11 witness: a brush of a dirty path resolved both gradient paints, the
\* first of them measuring the Path, and then rebuilt the buffer
C11_Witness ==
    /\ last.op = "brush" /\ last.pre.dirtyPath
    /\ last.resolved = {"fill", "stroke"}
    /\ last.trace = <<"resolveFill", "begin", "build", "bounds",
                      "resolveStroke", "begin", "build">>

\* C12: setShape on a Path without a shape changes no shape, flag or cached
\* rectangle of any entity and asks for no refresh; setShape on a Path with
\* a shape stores every supplied key, known or not, keeps the other keys,
\* and does dirty(true): the Path and its clip targets end dirty with their
\* geometry invalidated and the scene is asked to refresh. Both return the
\* Path.
C12_SetShape ==
    [][last'.op = "setShape" =>
        LET e == last'.e
            m == last'.arg[1]
        IN /\ last'.result = e /\ last'.returned
           /\ IF ~shape[e].obj
              THEN UNCHANGED <<shape, dirtyPath, dirtyFlag, rect,
                               needsRefresh>>
              ELSE /\ shape'[e].obj
                   /\ \A k \in ShapeKeys :
                        shape'[e].kv[k] =
                            IF k \in DOMAIN m THEN m[k] ELSE shape[e].kv[k]
                   /\ \A x \in Ent \ {e} : shape'[x] = shape[x]
                   /\ \A x \in {e} \cup ClipTargets(e) :
                        dirtyPath'[x] /\ dirtyFlag'[x] /\ rect'[x] = NullRect
                   /\ zr[e] => needsRefresh']_vars

\* C12 witness: setShape was called on a painted, measured Path without a
\* shape, and it and its clip target are still clean
C12_Witness ==
    /\ last.op = "setShape" /\ ~shape[last.e].obj /\ last.result = last.e
    /\ ~dirtyPath[last.e] /\ ~dirtyFlag[last.e] /\ rect[last.e] # NullRect
    /\ ~needsRefresh
    /\ clipTarget[last.e] # NoEnt /\ ~dirtyFlag[clipTarget[last.e]]

\* C13: the shape of an instance made by the constructor of an extended
\* kind holds, for each key, the value of options.shape when the key is
\* there and else the definition's default when it has one; the instance
\* has no shape only when neither gave one; the definition's defaults are
\* the same after the construction.
C13_NonDestructiveDefaults ==
    last.op = "construct" =>
        LET defaults == last.arg[1]
            opts == last.arg[2]
            shp == shape[last.e]
        IN /\ shp.obj = (opts.shape.obj \/ defaults.shape.obj)
           /\ \A k \in ShapeKeys :
                shp.kv[k] = IF opts.shape.kv[k] # Undef
                            THEN opts.shape.kv[k]
                            ELSE defaults.shape.kv[k]
           /\ last.kind = defaults

\* C13 witness: an instance made with a key given in both the options and
\* the defaults, and a key given in the defaults alone
C13_Witness ==
    /\ last.op = "construct"
    /\ last.arg[1].shape.kv = [r |-> Unit, k |-> Unit]
    /\ last.arg[2].shape.kv = [r |-> 20 * Unit, k |-> Undef]
    /\ shape[last.e].kv = [r |-> 20 * Unit, k |-> Unit]

\* The position of a step in a constructor's trace, 0 when it was not taken
StepAt(tr, step) ==
    IF \E i \in DOMAIN tr : tr[i] = step
    THEN CHOOSE i \in DOMAIN tr : tr[i] = step
    ELSE 0

\* C18: the constructor of an extended kind first runs the base Path
\* construction (an empty buffer of its own, __dirtyPath true), then merges
\* the default style, then the default shape, and calls the init hook last,
\* once when the definition has one and never otherwise, with the options
\* the constructor was given; the hook finds every default key in the shape.
C18_ConstructionOrder ==
    last.op = "construct" =>
        LET defaults == last.arg[1]
            opts == last.arg[2]
            tr == last.trace
        IN /\ tr[1] = "Path"
           /\ \A i, j \in DOMAIN tr : tr[i] = tr[j] => i = j
           /\ (StepAt(tr, "style") # 0) = (DOMAIN defaults.style # {})
           /\ (StepAt(tr, "shape") # 0) = defaults.shape.obj
           /\ StepAt(tr, "style") # 0 /\ StepAt(tr, "shape") # 0 =>
                 StepAt(tr, "style") < StepAt(tr, "shape")
           /\ Len(last.hook) = IF defaults.init THEN 1 ELSE 0
           /\ defaults.init =>
                 /\ tr[Len(tr)] = "init"
                 /\ last.hook[1].opts = opts
                 /\ \A k \in ShapeKeys :
                      defaults.shape.kv[k] # Undef =>
                          last.hook[1].shape.kv[k] # Undef
           /\ path[last.e] = NewPathProxy /\ dirtyPath[last.e]

\* C18 witness: a constructor that took all four steps, and whose init hook
\* found a default key the options had not given
C18_Witness ==
    /\ last.op = "construct"
    /\ last.trace = <<"Path", "style", "shape", "init">>
    /\ last.arg[2].shape.kv["k"] = Undef
    /\ Len(last.hook) = 1 /\ last.hook[1].shape.kv["k"] = Unit

\* C14: with no transform or the identity, getBoundingRect returns, for an
\* active stroke of line width w, the raw bounds of the geometry grown by
\* max(w, 5) in width and height and moved by max(w, 5) / 2 to the upper
\* left; with no stroke, the stroke 'none' or a line width of 0, the raw
\* bounds themselves.
C14_BoundsInflation ==
    (/\ last.op = "getBoundingRect"
     /\ transform[last.e] \in {NoTransform, Identity}) =>
        LET st == style[last.e]
            raw == PathBoundingRect(path[last.e])
            d == Max(st.lineWidth, MinLineWidth * Unit)
        IN /\ raw[3] = shape[last.e].kv["r"]
           /\ last.ret =
                IF st.stroke \notin {"null", "none"} /\ st.lineWidth > 0
                THEN <<raw[1] - d \div 2, raw[2] - d \div 2,
                       raw[3] + d, raw[4] + d>>
                ELSE raw

\* C14 witness: the bounds of a Path with a stroke thinner than 5 under the
\* identity transform, grown by 5
C14_Witness ==
    /\ last.op = "getBoundingRect" /\ transform[last.e] = Identity
    /\ style[last.e].stroke = "red" /\ style[last.e].lineWidth = Unit
    /\ last.ret[3] = shape[last.e].kv["r"] + MinLineWidth * Unit
    /\ last.ret[1] = 0 - (MinLineWidth * Unit) \div 2

\* C15 as stated: the line scale is 1 when there is no transform or when a
\* and d are both 1, and the square root of |a*d - b*c| for every other
\* matrix, also when only one of a and d is 1.
C15_Original ==
    last.op = "getLineScale" =>
        LET m == last.arg[1]
        IN last.result =
            IF m = NoTransform THEN 1
            ELSE IF m[1] = 1 /\ m[4] = 1 THEN 1
            ELSE Sqrt(abs(m[1] * m[4] - m[2] * m[3]))

\* C16 as stated: every dirty call returns, whatever the __clipTarget
\* relation, also when an entity is reachable from itself along it.
C16_Original ==
    last.op = "dirty" => last.returned

\* In a call's trace, every invocation of the builder comes after a begin
\* of the buffer with no other invocation in between
BeginsBeforeBuilds(tr) ==
    \A i \in DOMAIN tr :
        tr[i] = "build" =>
            \E j \in 1..(i - 1) :
                /\ tr[j] = "begin"
                /\ \A k \in (j + 1)..(i - 1) : tr[k] # "build"

\* C17: in brush and getBoundingRect alike the builder is invoked only
\* after the buffer was begun in the same call, a call that invoked the
\* builder leaves in the buffer exactly what the builder records for the
\* current shape, and a call that did not invoke it leaves the recorded
\* geometry as it was.
C17_NoAccumulation ==
    [][/\ BeginsBeforeBuilds(last'.trace)
       /\ last'.built >= 1 =>
             /\ \E i \in DOMAIN last'.trace : last'.trace[i] = "build"
             /\ path'[last'.e].data =
                    BuildPath(NewPathProxy, shape'[last'.e]).data
       /\ \A x \in Ent :
             (last'.built = 0 \/ x # last'.e) =>
                 path'[x].data = path[x].data]_vars

\* C17 witness: two brushes in a row have each rebuilt the buffer, and it
\* holds the geometry of the shape once
C17_Witness ==
    /\ run.phase = 3 /\ run.builds = 2 /\ last.op = "brush"
    /\ last.trace = <<"begin", "build">>
    /\ path[last.e].data = <<shape[last.e].kv["r"]>>

\* C19: whenever a call computes bounds from the buffer, or gives the
\* buffer's data to a containment predicate, the buffer holds what the
\* builder records for the shape as it is at that time.
C19_NoStaleGeometry ==
    [][((\E i \in DOMAIN last'.trace : last'.trace[i] = "bounds")
        \/ last'.tests # {}) =>
          path'[last'.e].data = BuildPath(NewPathProxy, shape[last'.e]).data
      ]_vars

\* C19 witness: after a setShape, contain rebuilt the buffer, computed the
\* bounds and tested the stroke against the geometry of the new shape
C19_Witness ==
    /\ last.op = "contain" /\ last.pre.dirtyPath /\ last.built = 1
    /\ last.trace = <<"begin", "build", "bounds">>
    /\ "stroke" \in last.tests
    /\ shape[last.e].kv["r"] = 20 * Unit
    /\ path[last.e].data = <<20 * Unit>>

\* C20: getBoundingRect and contain change no __dirtyPath, __dirty, shape
\* or style, also when they rebuild the buffer; so a brush that follows
\* such calls made on a dirty path still rebuilds.
C20_QueriesKeepFlags ==
    [][/\ last'.op \in {"getBoundingRect", "contain"} =>
             /\ dirtyPath' = dirtyPath /\ dirtyFlag' = dirtyFlag
             /\ shape' = shape /\ style' = style
       /\ (/\ last'.op = "brush"
           /\ last.op \in {"getBoundingRect", "contain"}
           /\ last.e = last'.e /\ last.pre.dirtyPath) =>
             /\ ~last'.replay /\ last'.built >= 1
             /\ ~dirtyPath'[last'.e]]_vars

\* C20 witness: a brush rebuilt the buffer of a dirty path whose rectangle
\* a getBoundingRect or contain had cached since it became dirty
C20_Witness ==
    /\ last.op = "brush" /\ last.pre.dirtyPath /\ last.pre.cached
    /\ ~last.replay /\ last.built = 1
    /\ shape[last.e].kv["r"] = 20 * Unit

====
